---- MODULE Spec2Model ----
(***************************************************************************)
(* Lead relay (Inbox_SaaS): the sqlite store (users, clients, leads), the   *)
(* webhook ingress of app/server.py, and the Telegram bot handlers and     *)
(* poll loop of app/bot.py.  Every db.* function opens its own connection   *)
(* and commits,                                                             *)
(* so one db call is one atomic step; a handler that makes several db or    *)
(* transport calls is a sequence of steps that other requests interleave.   *)
(***************************************************************************)
EXTENDS Integers, Sequences, FiniteSets, TLC

(* ---------------------------- bounds ----------------------------------- *)
\* number of lead rows the ingress creates under Spec, SpecReads and SpecDebug
MaxLeads == 2
\* number of lead rows the ingress creates under SpecCallback
MaxCallbackLeads == 1
\* number of updates the transport receives under SpecPoll
MaxUpdates == 3

(* ------------------------ values and inputs ---------------------------- *)
\* Python None / SQL NULL in an integer column (row ids, chat ids and
\* message ids are positive) and in a text column
NoneInt == 0 - 1
NoneStr == "None"

\* Python truthiness of an Optional[int] / Optional[str]
TruthyInt(v) == v # NoneInt /\ v # 0
TruthyStr(v) == v # NoneStr /\ v # ""

\* concurrent webhook request handlers (FastAPI runs sync endpoints in a
\* thread pool)
Procs == {"w1", "w2"}

\* chat identities that talk to the bot, message ids Telegram hands out
Chats == {7}
MsgIds == {41}

\* values _gen_token can return, and tokens an ingress caller can present
Tokens == {"tokA", "tokB", "tokC"}
CallerTokens == {"tokA", "tokB", "nope"}

Names == {NoneStr, "Anna"}
Phones == {NoneStr, "+371"}
Sources == {"instagram"}
Texts == {"hello"}

\* WebhookPayload: source and text required, name and phone optional
WebhookPayload == [source : Sources, text : Texts, name : Names, phone : Phones]
NoPayload == [source |-> "", text |-> "", name |-> NoneStr, phone |-> NoneStr]

\* the four statuses handle_callback_query accepts
Statuses == {"booked", "call_back", "rejected", "new"}

(* ------------------------- formatting.py ------------------------------- *)
STATUS_EMOJI == [s \in {"new", "booked", "call_back", "rejected"} |->
                   CASE s = "new" -> "NEW"
                     [] s = "booked" -> "CHECK"
                     [] s = "call_back" -> "CLOCK"
                     [] s = "rejected" -> "CROSS"]

\* the Russian labels, transliterated
STATUS_LABEL == [s \in {"new", "booked", "call_back", "rejected"} |->
                   CASE s = "new" -> "Novaya"
                     [] s = "booked" -> "Zapisan(a)"
                     [] s = "call_back" -> "Perezvonit"
                     [] s = "rejected" -> "Otkaz"]

\* (v or "-").strip() or "-"
_safe(v) == IF TruthyStr(v) THEN v ELSE "-"

\* dict.get(key, default)
DictGet(d, k, default) == IF k \in DOMAIN d THEN d[k] ELSE default

\* the lines of the rendered text, as a record of their variable parts
format_lead_text(lead) ==
    [ emoji  |-> DictGet(STATUS_EMOJI, lead.status, "MEMO"),
      id     |-> lead.id,
      label  |-> DictGet(STATUS_LABEL, lead.status, lead.status),
      name   |-> _safe(lead.name),
      phone  |-> _safe(lead.phone),
      source |-> _safe(lead.source),
      text   |-> _safe(lead.text) ]

\* str(int) for the ids the model uses, and int(str) (ParseFail on a
\* segment that is not a decimal number)
Digits == <<"1", "2", "3", "4", "5">>
IntToStr(n) == Digits[n]
ParseFail == 0 - 2
\* further integer literals that reach int(): <<text, value>>
IntLiterals == { <<"0", 0>>, <<"-1", 0 - 1>>, <<"20", 20>>, <<"100", 100>>,
                 <<"101", 101>> }
ParseInt(s) == IF \E n \in DOMAIN Digits : Digits[n] = s
               THEN CHOOSE n \in DOMAIN Digits : Digits[n] = s
               ELSE IF \E l \in IntLiterals : l[1] = s
               THEN (CHOOSE l \in IntLiterals : l[1] = s)[2]
               ELSE ParseFail

\* callback_data of the three buttons; a data string is modelled as the
\* list of its ":"-separated segments
lead_keyboard(lead_id) ==
    << <<"lead", IntToStr(lead_id), "booked">>,
       <<"lead", IntToStr(lead_id), "call_back">>,
       <<"lead", IntToStr(lead_id), "rejected">> >>

(* ------------------------------ db.py ---------------------------------- *)
\* the calendar days the clock passes through; a timestamp is modelled by
\* its date part, the prefix that `created_at LIKE '<day>%'` compares
Days == <<"2026-01-13", "2026-01-14">>
utc_now_iso(clock) == Days[clock]
\* bot.py _utc_today(): the date of the same clock
_utc_today(clock) == Days[clock]

\* fetchone(): <<>> for None, <<row>> for a row
RowsWhere(table, P(_)) == {i \in DOMAIN table : P(table[i])}
MaxOf(S) == CHOOSE m \in S : \A x \in S : x <= m

\* get_user_by_token that falls back to the first tenant on a miss
get_user_by_token_first(us, token) ==
    LET hit == RowsWhere(us, LAMBDA r : r.token = token)
    IN  IF hit = {} THEN <<us[1]>> ELSE <<us[CHOOSE i \in hit : TRUE]>>

\* SELECT * FROM users WHERE token = ?
get_user_by_token(us, token) ==
    LET hit == RowsWhere(us, LAMBDA r : r.token = token)
    IN  IF hit = {} THEN <<>> ELSE <<us[CHOOSE i \in hit : TRUE]>>

\* get_or_create_user_by_chat_id without its lookup: always inserts
get_or_create_user_always_insert(us, tg_chat_id, token) ==
    LET new == [id |-> Len(us) + 1, tg_chat_id |-> tg_chat_id, token |-> token]
    IN  [users |-> Append(us, new), row |-> new]

\* SELECT * FROM users WHERE tg_chat_id = ?; INSERT if absent. `token` is
\* the value the collision-checked _gen_token loop ends with.
get_or_create_user_by_chat_id(us, tg_chat_id, token) ==
    LET hit == RowsWhere(us, LAMBDA r : r.tg_chat_id = tg_chat_id)
    IN  IF hit # {}
        THEN [users |-> us, row |-> us[CHOOSE i \in hit : TRUE]]
        ELSE LET new == [id |-> Len(us) + 1, tg_chat_id |-> tg_chat_id, token |-> token]
             IN  [users |-> Append(us, new), row |-> new]

\* the token the `while ... SELECT 1 FROM users WHERE token = ?` loop can
\* leave with: any generated value no row carries
FreshTokens(us) == {t \in Tokens : RowsWhere(us, LAMBDA r : r.token = t) = {}}

\* upsert_client, first statement:
\* SELECT id FROM clients WHERE user_id = ? AND phone = ? ORDER BY id DESC LIMIT 1
upsert_client_select(cs, user_id, phone) ==
    LET hit == RowsWhere(cs, LAMBDA r : r.user_id = user_id /\ r.phone = phone)
    IN  IF TruthyStr(phone) /\ hit # {} THEN MaxOf(hit) ELSE NoneInt

\* upsert_client whose UPDATE is not guarded by `if name`
upsert_client_write_unguarded(cs, row, user_id, name, phone) ==
    IF row # NoneInt
    THEN [clients |-> [cs EXCEPT ![row].name = name], id |-> row]
    ELSE [clients |-> Append(cs, [id |-> Len(cs) + 1, user_id |-> user_id,
                                  name |-> name, phone |-> phone]),
          id |-> Len(cs) + 1]

\* upsert_client, second statement: UPDATE name of the row found, or INSERT
upsert_client_write(cs, row, user_id, name, phone) ==
    IF row # NoneInt
    THEN [clients |-> IF TruthyStr(name)
                      THEN [cs EXCEPT ![row].name = name]
                      ELSE cs,
          id |-> row]
    ELSE [clients |-> Append(cs, [id |-> Len(cs) + 1, user_id |-> user_id,
                                  name |-> name, phone |-> phone]),
          id |-> Len(cs) + 1]

\* upsert_client run without interleaving
upsert_client(cs, user_id, name, phone) ==
    IF ~(TruthyStr(name) \/ TruthyStr(phone))
    THEN [clients |-> cs, id |-> NoneInt]
    ELSE upsert_client_write(cs, upsert_client_select(cs, user_id, phone),
                             user_id, name, phone)

\* create_lead with the name and phone columns swapped in the INSERT
create_lead_swapped(ls, user_id, source, text, name, phone, client_id, status, created_at, tg_chat_id) ==
    Append(ls, [id |-> Len(ls) + 1, user_id |-> user_id, client_id |-> client_id,
                source |-> source, name |-> phone, phone |-> name, text |-> text,
                status |-> status, created_at |-> created_at,
                tg_chat_id |-> tg_chat_id, tg_message_id |-> NoneInt])

\* INSERT INTO leads (...) with tg_message_id left NULL; created_at is the
\* value of utc_now_iso() at the call
create_lead(ls, user_id, source, text, name, phone, client_id, status, created_at, tg_chat_id) ==
    Append(ls, [id |-> Len(ls) + 1, user_id |-> user_id, client_id |-> client_id,
                source |-> source, name |-> name, phone |-> phone, text |-> text,
                status |-> status, created_at |-> created_at,
                tg_chat_id |-> tg_chat_id, tg_message_id |-> NoneInt])

\* set_lead_status that treats rejected as terminal
set_lead_status_terminal(ls, lead_id, status) ==
    IF lead_id \in DOMAIN ls /\ ls[lead_id].status # "rejected"
    THEN [ls EXCEPT ![lead_id].status = status]
    ELSE ls

\* set_lead_status whose UPDATE matches no row
set_lead_status_noop(ls, lead_id, status) == ls

\* UPDATE leads SET status = ? WHERE id = ?
set_lead_status(ls, lead_id, status) ==
    IF lead_id \in DOMAIN ls THEN [ls EXCEPT ![lead_id].status = status] ELSE ls

\* set_lead_telegram_message with its two bound parameters swapped
set_lead_telegram_message_swapped(ls, lead_id, tg_message_id, tg_chat_id) ==
    IF lead_id \in DOMAIN ls
    THEN [ls EXCEPT ![lead_id].tg_message_id = tg_chat_id,
                    ![lead_id].tg_chat_id = tg_message_id]
    ELSE ls

\* UPDATE leads SET tg_message_id = ?, tg_chat_id = ? WHERE id = ?
set_lead_telegram_message(ls, lead_id, tg_message_id, tg_chat_id) ==
    IF lead_id \in DOMAIN ls
    THEN [ls EXCEPT ![lead_id].tg_message_id = tg_message_id,
                    ![lead_id].tg_chat_id = tg_chat_id]
    ELSE ls

\* SELECT * FROM leads WHERE id = ?
get_lead_by_id(ls, lead_id) ==
    IF lead_id \in DOMAIN ls THEN <<ls[lead_id]>> ELSE <<>>

\* rows of a result set, in the order given, cut by LIMIT n (sqlite: a
\* negative LIMIT means no limit)
Limit(rows, n) ==
    IF n < 0 \/ n >= Len(rows) THEN rows ELSE SubSeq(rows, 1, n)
Reverse(rows) == [k \in 1..Len(rows) |-> rows[Len(rows) + 1 - k]]

\* x LIKE '%q%' on the strings the model uses (letters in one case)
Contains(x, q) ==
    \E k \in 1..(Len(x) - Len(q) + 1) : SubSeq(x, k, k + Len(q) - 1) = q
\* COALESCE(v, '')
Coalesce(v) == IF v = NoneStr THEN "" ELSE v

\* list_leads_for_day whose WHERE lost `user_id = ?`
list_leads_for_day_any_user(ls, user_id, day) ==
    SelectSeq(ls, LAMBDA r : r.created_at = day)

\* SELECT * FROM leads WHERE user_id = ? AND created_at LIKE '<day>%'
\* ORDER BY created_at ASC (timestamps grow with the row id)
list_leads_for_day(ls, user_id, day) ==
    SelectSeq(ls, LAMBDA r : r.user_id = user_id /\ r.created_at = day)

\* SELECT * FROM leads WHERE user_id = ? ORDER BY id DESC LIMIT ?
list_recent_leads(ls, user_id, limit) ==
    Limit(Reverse(SelectSeq(ls, LAMBDA r : r.user_id = user_id)), limit)

\* SELECT * FROM leads WHERE user_id = ? AND (COALESCE(name,'') LIKE ? OR
\* COALESCE(phone,'') LIKE ? OR text LIKE ?) ORDER BY id DESC LIMIT ?
find_leads_by_client(ls, user_id, query, limit) ==
    Limit(Reverse(SelectSeq(ls, LAMBDA r :
              /\ r.user_id = user_id
              /\ \/ Contains(Coalesce(r.name), query)
                 \/ Contains(Coalesce(r.phone), query)
                 \/ Contains(r.text, query))),
          limit)

(* --------------------------- telegram_api.py --------------------------- *)
\* a call of TelegramClient.send_message / edit_message_text as the client
\* receives it
SendCall(chat_id, text, reply_markup) ==
    [chat_id |-> chat_id, text |-> text, reply_markup |-> reply_markup]
EditCall(chat_id, message_id, text, reply_markup) ==
    [chat_id |-> chat_id, message_id |-> message_id, text |-> text,
     reply_markup |-> reply_markup]
NoMarkup == <<>>

(* ------------------------------ state ---------------------------------- *)
VARIABLES
    users,      \* table users: sequence of rows, row id = index
    clients,    \* table clients
    leads,      \* table leads
    calls,      \* per webhook worker: the request it runs and its position
    bot,        \* the poll loop's handler: the event it runs and what it did
    poll,       \* run(): the cursor, the fetched batch and the loop's position
    now,        \* the UTC clock, as the index of the current day in Days
    cbs         \* handle_callback_query as run by several pollers at a time

vars == <<users, clients, leads, calls, bot, poll, now, cbs>>

\* HTTP outcome of a webhook call: 200 with the lead id, 404, or 500 when
\* an exception leaves the endpoint
NoResponse == [status |-> 0, lead_id |-> NoneInt]
Response(status, lead_id) == [status |-> status, lead_id |-> lead_id]

\* the {"ok": true, "leads": [...]} answer of the diagnostic endpoint
DebugResponse(rows) == [status |-> 200, lead_id |-> NoneInt, leads |-> rows]

IdleCall == [pc |-> "idle", token |-> NoneStr, payload |-> NoPayload,
             limit |-> NoneInt, user |-> <<>>,
             row |-> NoneInt, client_id |-> NoneInt, lead_id |-> NoneInt,
             sent |-> <<>>, msg_id |-> NoneInt, response |-> NoResponse]

\* an inbound text message and an inline-action callback query
NoText == [cmd |-> "", at |-> "", arg |-> ""]
NoMessage == [chat_id |-> NoneInt, text |-> NoText]
NoCq == [id |-> NoneStr, data |-> <<>>, chat_id |-> NoneInt, message_id |-> NoneInt]

\* `prev` is the status the lead had when set_lead_status was called
IdleBot == [pc |-> "idle", message |-> NoMessage, cq |-> NoCq, acked |-> FALSE,
            prev |-> NoneStr, sent |-> <<>>, edits |-> <<>>, exit |-> "none"]

\* run(), line 179: no cursor yet, nothing fetched. `queue` holds the
\* updates the transport has received so far (update_id = position), `seen`
\* counts per update id how often it was dispatched (capped at 2), `errors`
\* whether the loop has caught an exception, `cut` the ids of the updates
\* that were left undispatched in a batch when a handler before them raised
IdlePoll == [pc |-> "fetch", offset |-> NoneInt, batch |-> <<>>, i |-> 1,
             queue |-> <<>>, seen |-> <<>>, errors |-> FALSE, cut |-> {}]

\* pollers that run handle_callback_query on the same store (the function
\* takes no lock; a second bot process calls it while the first one does).
\* `run` is each poller's position in the handler, `last_write` the status of
\* the latest set_lead_status, `shown` the latest edit the transport applied,
\* `stray` whether some call came for a lead not bound to the event's message
Handlers == {"h1", "h2"}
IdleHandler == [pc |-> "idle", cq |-> NoCq, lead_id |-> NoneInt, status |-> NoneStr,
                lead |-> <<>>]
IdleCbs == [run |-> [h \in Handlers |-> IdleHandler], last_write |-> NoneStr,
            shown |-> <<>>, stray |-> FALSE]

\* the lead is bound to the message the event came from
BoundTo(ls, lead_id, cq) ==
    /\ lead_id \in DOMAIN ls
    /\ ls[lead_id].tg_chat_id = cq.chat_id
    /\ ls[lead_id].tg_message_id = cq.message_id

\* the store the service starts on: the schema of init_schema admits a
\* tenant row whose tg_chat_id is NULL (provisioned before any chat)
Init ==
    /\ users = << [id |-> 1, tg_chat_id |-> NoneInt, token |-> "tokA"] >>
    /\ clients = <<>>
    /\ leads = <<>>
    /\ calls = [p \in Procs |-> IdleCall]
    /\ bot = IdleBot
    /\ poll = IdlePoll
    /\ now = 1
    /\ cbs = IdleCbs

(* --------------------------- server.py: webhook ------------------------ *)
\* calls that have resolved a tenant and not yet inserted their lead
PreCreate == {"upsert", "upsert_write", "create"}
InFlight == Cardinality({q \in Procs : calls[q].pc \in PreCreate})

\* lines 38-41: resolve the tenant, 404 on an unknown token; `cap` is the
\* number of lead rows the specification lets the store grow to
WebhookStart(p, token, payload, cap) ==
    /\ calls[p].pc \in {"idle", "done"}
    /\ LET user == get_user_by_token(users, token)
       IN  IF user = <<>>
           THEN calls' = [calls EXCEPT ![p] =
                    [IdleCall EXCEPT !.pc = "done", !.token = token,
                                     !.response = Response(404, NoneInt)]]
           ELSE /\ Len(leads) + InFlight < cap
                /\ calls' = [calls EXCEPT ![p] =
                    [IdleCall EXCEPT !.pc = "upsert", !.token = token,
                                     !.payload = payload, !.user = user]]
    /\ UNCHANGED <<users, clients, leads, bot, poll, now, cbs>>

\* line 43, upsert_client up to its SELECT
WebhookUpsertSelect(p) ==
    /\ calls[p].pc = "upsert"
    /\ LET c == calls[p]
       IN  IF ~(TruthyStr(c.payload.name) \/ TruthyStr(c.payload.phone))
           THEN calls' = [calls EXCEPT ![p].pc = "create", ![p].client_id = NoneInt]
           ELSE calls' = [calls EXCEPT ![p].pc = "upsert_write",
                    ![p].row = upsert_client_select(clients, c.user[1].id, c.payload.phone)]
    /\ UNCHANGED <<users, clients, leads, bot, poll, now, cbs>>

\* line 43, upsert_client from its UPDATE / INSERT to its return
WebhookUpsertWrite(p) ==
    /\ calls[p].pc = "upsert_write"
    /\ LET c == calls[p]
           r == upsert_client_write(clients, c.row, c.user[1].id,
                                    c.payload.name, c.payload.phone)
       IN  /\ clients' = r.clients
           /\ calls' = [calls EXCEPT ![p].pc = "create", ![p].client_id = r.id]
    /\ UNCHANGED <<users, leads, bot, poll, now, cbs>>

\* lines 45-59 and 65: insert the lead; return if the tenant has no chat
WebhookCreateLead(p) ==
    /\ calls[p].pc = "create"
    /\ LET c == calls[p]
           user == c.user[1]
           lead_id == Len(leads) + 1
       IN  /\ leads' = create_lead(leads, user.id, c.payload.source, c.payload.text,
                                   c.payload.name, c.payload.phone, c.client_id,
                                   "new", utc_now_iso(now), user.tg_chat_id)
           /\ IF TruthyInt(user.tg_chat_id)
              THEN calls' = [calls EXCEPT ![p].pc = "send", ![p].lead_id = lead_id]
              ELSE calls' = [calls EXCEPT ![p] =
                       [IdleCall EXCEPT !.pc = "done", !.token = c.token,
                                        !.lead_id = lead_id,
                                        !.response = Response(200, lead_id)]]
    /\ UNCHANGED <<users, clients, bot, poll, now, cbs>>

\* lines 60-62: reload the lead and send the notification; send_message
\* returns a message id or raises (the exception leaves the endpoint)
WebhookSend(p, raises, msg_id) ==
    /\ calls[p].pc = "send"
    /\ LET c == calls[p]
           lead == get_lead_by_id(leads, c.lead_id)
       IN  IF lead = <<>>
           THEN calls' = [calls EXCEPT ![p] =
                    [IdleCall EXCEPT !.pc = "done", !.token = c.token,
                                     !.lead_id = c.lead_id,
                                     !.response = Response(200, c.lead_id)]]
           ELSE LET call == SendCall(c.user[1].tg_chat_id, format_lead_text(lead[1]),
                                     lead_keyboard(c.lead_id))
                IN  IF raises
                    THEN calls' = [calls EXCEPT ![p] =
                             [IdleCall EXCEPT !.pc = "done", !.token = c.token,
                                              !.lead_id = c.lead_id,
                                              !.sent = <<call>>,
                                              !.response = Response(500, NoneInt)]]
                    ELSE calls' = [calls EXCEPT ![p].pc = "bind",
                                                ![p].sent = <<call>>,
                                                ![p].msg_id = msg_id]
    /\ UNCHANGED <<users, clients, leads, bot, poll, now, cbs>>

\* lines 63-65: bind the message to the lead and answer
WebhookBind(p) ==
    /\ calls[p].pc = "bind"
    /\ LET c == calls[p]
       IN  /\ leads' = set_lead_telegram_message(leads, c.lead_id, c.msg_id,
                                                 c.user[1].tg_chat_id)
           /\ calls' = [calls EXCEPT ![p] =
                  [IdleCall EXCEPT !.pc = "done", !.token = c.token,
                                   !.lead_id = c.lead_id, !.sent = c.sent,
                                   !.msg_id = c.msg_id,
                                   !.response = Response(200, c.lead_id)]]
    /\ UNCHANGED <<users, clients, bot, poll, now, cbs>>

\* debug_list_leads, lines 67-73: 404 on an unknown token, else the
\* tenant's recent leads with the caller's limit passed through
DebugListLeads(p, token, limit) ==
    /\ calls[p].pc \in {"idle", "done"}
    /\ LET user == get_user_by_token(users, token)
       IN  IF user = <<>>
           THEN calls' = [calls EXCEPT ![p] =
                    [IdleCall EXCEPT !.pc = "done", !.token = token, !.limit = limit,
                                     !.response = Response(404, NoneInt)]]
           ELSE calls' = [calls EXCEPT ![p] =
                    [IdleCall EXCEPT !.pc = "done", !.token = token, !.limit = limit,
                                     !.user = user,
                                     !.response = DebugResponse(
                                         list_recent_leads(leads, user[1].id, limit))]]
    /\ UNCHANGED <<users, clients, leads, bot, poll, now, cbs>>

\* midnight UTC passes
Tick ==
    /\ now < Len(Days)
    /\ now' = now + 1
    /\ UNCHANGED <<users, clients, leads, calls, bot, poll, cbs>>

(* ------------------------------ bot.py --------------------------------- *)
\* a message text is <cmd><at> <arg>; _parse_command splits off the
\* argument and strips the "@botname" suffix from the first word
_parse_command(text) == <<text.cmd, text.arg>>

\* text.strip() of the whole message, as far as the handler tests it:
\* empty, or starting with "/"
TextEmpty(text) == text.cmd = "" /\ text.at = "" /\ text.arg = ""
StartsWithSlash(text) == text.cmd # "" /\ SubSeq(text.cmd, 1, 1) = "/"

\* the replies of handle_message, by their wording and the token they show
Reply(kind, token) == [kind |-> kind, token |-> token]

\* _render_lead_list: the "nothing found" line, or one line per lead (its
\* id, status, name and source; the time of day is not modelled)
_render_lead_list(rows) ==
    [kind |-> "list", token |-> NoneStr,
     lines |-> [k \in 1..Len(rows) |->
                  [id |-> rows[k].id, status |-> rows[k].status,
                   name |-> IF TruthyStr(rows[k].name) THEN rows[k].name ELSE "-",
                   source |-> IF TruthyStr(rows[k].source) THEN rows[k].source ELSE "-"]]]

\* date.fromisoformat(arg).isoformat(): the ISO dates among the arguments
\* the model sends, NoneStr when the parse raises
IsoDates == {"2026-01-13", "2026-01-14", "2026-01-15"}
date_fromisoformat(arg) == IF arg \in IsoDates THEN arg ELSE NoneStr

\* max(1, min(n, 100))
ClampLast(n) == IF n > 100 THEN 100 ELSE IF n < 1 THEN 1 ELSE n

\* lines 93-96
cmd_today(ls, user_id, today) ==
    _render_lead_list(list_leads_for_day(ls, user_id, today))

\* /day that returns without a reply when the date does not parse
cmd_day_silent(ls, user_id, arg) ==
    IF date_fromisoformat(arg) = NoneStr
    THEN [kind |-> "none", token |-> NoneStr]
    ELSE _render_lead_list(list_leads_for_day(ls, user_id, date_fromisoformat(arg)))

\* lines 98-106
cmd_day(ls, user_id, arg) ==
    IF date_fromisoformat(arg) = NoneStr
    THEN Reply("day_usage", NoneStr)
    ELSE _render_lead_list(list_leads_for_day(ls, user_id, date_fromisoformat(arg)))

\* lines 108-117
cmd_last(ls, user_id, arg) ==
    LET n == ParseInt(IF arg = "" THEN "20" ELSE arg)
    IN  IF n = ParseFail
        THEN Reply("last_usage", NoneStr)
        ELSE _render_lead_list(list_recent_leads(ls, user_id, ClampLast(n)))

\* lines 119-126
cmd_find(ls, user_id, arg) ==
    IF arg = ""
    THEN Reply("find_usage", NoneStr)
    ELSE _render_lead_list(find_leads_by_client(ls, user_id, arg, 50))

\* what handle_message does with a message: the users table it leaves and
\* the reply it sends (<<>> when it returns without sending)
handle_message(us, ls, today, message, token) ==
    LET chat_id == message.chat_id
        pc      == _parse_command(message.text)
        cmd     == pc[1]
        arg     == pc[2]
        r       == get_or_create_user_by_chat_id(us, chat_id, token)
        user_id == r.row.id
        Send(reply) == IF reply.kind = "none" THEN <<>> ELSE <<reply>>
    IN  IF chat_id = NoneInt
        THEN [users |-> us, reply |-> <<>>]
        ELSE IF TextEmpty(message.text)
        THEN [users |-> us, reply |-> <<Reply("text_only", NoneStr)>>]
        ELSE IF ~StartsWithSlash(message.text)
        THEN [users |-> us, reply |-> <<Reply("write_help", NoneStr)>>]
        ELSE IF cmd = "/start"
        THEN [users |-> r.users, reply |-> <<Reply("start", r.row.token)>>]
        ELSE IF cmd = "/help"
        THEN [users |-> us, reply |-> <<Reply("help", NoneStr)>>]
        ELSE IF cmd = "/token"
        THEN [users |-> r.users, reply |-> <<Reply("token", r.row.token)>>]
        ELSE IF cmd = "/today"
        THEN [users |-> r.users, reply |-> Send(cmd_today(ls, user_id, today))]
        ELSE IF cmd = "/day"
        THEN [users |-> r.users, reply |-> Send(cmd_day(ls, user_id, arg))]
        ELSE IF cmd = "/last"
        THEN [users |-> r.users, reply |-> Send(cmd_last(ls, user_id, arg))]
        ELSE IF cmd = "/find"
        THEN [users |-> r.users, reply |-> Send(cmd_find(ls, user_id, arg))]
        ELSE [users |-> r.users, reply |-> <<Reply("unknown", NoneStr)>>]

\* handle_message, lines 38-128: one db call at most, then one send, which
\* returns or raises into the poll loop
MessageStep(message, token, raises) ==
    /\ bot.pc = "idle"
    /\ LET h == handle_message(users, leads, _utc_today(now), message, token)
       IN  /\ users' = h.users
           /\ bot' = [IdleBot EXCEPT
                  !.message = message,
                  !.sent = IF h.reply = <<>> THEN <<>>
                           ELSE <<SendCall(message.chat_id, h.reply[1], NoMarkup)>>,
                  !.exit = IF h.reply = <<>> THEN "no_chat"
                           ELSE IF raises THEN "send_raised" ELSE "replied"]
    /\ UNCHANGED <<clients, leads, calls, now, cbs>>

\* a message handled outside the poll loop's bookkeeping
HandleMessage(message, token, raises) ==
    MessageStep(message, token, raises) /\ UNCHANGED poll

\* data.startswith("lead:"), on the segments of data.split(":")
StartsWithLead(data) == Len(data) >= 2 /\ data[1] = "lead"

\* the validation without its check of the status segment
ParseCallback_any_status(cq) ==
    IF ~(StartsWithLead(cq.data) /\ TruthyInt(cq.chat_id) /\ TruthyInt(cq.message_id))
    THEN [exit |-> "not_lead", lead_id |-> NoneInt, status |-> NoneStr]
    ELSE IF Len(cq.data) # 3
    THEN [exit |-> "bad_shape", lead_id |-> NoneInt, status |-> NoneStr]
    ELSE IF ParseInt(cq.data[2]) = ParseFail
    THEN [exit |-> "bad_id", lead_id |-> NoneInt, status |-> NoneStr]
    ELSE [exit |-> "ok", lead_id |-> ParseInt(cq.data[2]), status |-> cq.data[3]]

\* lines 141-156: the lead id and status of a callback the handler lets
\* through, or the return it takes
ParseCallback(cq) ==
    IF ~(StartsWithLead(cq.data) /\ TruthyInt(cq.chat_id) /\ TruthyInt(cq.message_id))
    THEN [exit |-> "not_lead", lead_id |-> NoneInt, status |-> NoneStr]
    ELSE IF Len(cq.data) # 3
    THEN [exit |-> "bad_shape", lead_id |-> NoneInt, status |-> NoneStr]
    ELSE IF ParseInt(cq.data[2]) = ParseFail
    THEN [exit |-> "bad_id", lead_id |-> NoneInt, status |-> NoneStr]
    ELSE IF cq.data[3] \notin Statuses
    THEN [exit |-> "bad_status", lead_id |-> NoneInt, status |-> NoneStr]
    ELSE [exit |-> "ok", lead_id |-> ParseInt(cq.data[2]), status |-> cq.data[3]]

\* lines 132-139: read the event and acknowledge it; answer_callback_query
\* returns or raises into the poll loop
CallbackAckStep(cq, raises) ==
    /\ bot.pc = "idle"
    /\ bot' = [IdleBot EXCEPT
           !.cq = cq,
           !.acked = TruthyStr(cq.id),
           !.pc = IF TruthyStr(cq.id) /\ raises THEN "idle" ELSE "cq_validate",
           !.exit = IF TruthyStr(cq.id) /\ raises THEN "ack_raised" ELSE "none"]
    /\ UNCHANGED <<users, clients, leads, calls, now, cbs>>

HandleCallbackAck(cq, raises) ==
    CallbackAckStep(cq, raises) /\ UNCHANGED poll

\* lines 141-164: validate, set the status, reload the lead, edit the
\* message the callback came from
CallbackApplyStep(raises) ==
    /\ bot.pc = "cq_validate"
    /\ LET cq == bot.cq
           v == ParseCallback(cq)
           ls == set_lead_status(leads, v.lead_id, v.status)
           lead == get_lead_by_id(ls, v.lead_id)
       IN  IF v.exit # "ok"
           THEN /\ bot' = [bot EXCEPT !.pc = "idle", !.exit = v.exit]
                /\ UNCHANGED leads
           ELSE /\ leads' = ls
                /\ IF lead = <<>>
                   THEN bot' = [bot EXCEPT !.pc = "idle", !.exit = "no_lead"]
                   ELSE bot' = [bot EXCEPT
                            !.pc = "idle",
                            !.prev = leads[v.lead_id].status,
                            !.edits = <<EditCall(cq.chat_id, cq.message_id,
                                                 format_lead_text(lead[1]),
                                                 lead_keyboard(v.lead_id))>>,
                            !.exit = IF raises THEN "edit_raised" ELSE "edited"]
    /\ UNCHANGED <<users, clients, calls, now, cbs>>

HandleCallbackApply(raises) ==
    CallbackApplyStep(raises) /\ UNCHANGED poll

\* handle_callback_query, one db or transport call per step
\* lines 132-156: acknowledge and validate
CqAck(h, cq) ==
    /\ cbs.run[h].pc \in {"idle", "done"}
    /\ LET v == ParseCallback(cq)
       IN  cbs' = [cbs EXCEPT
               !.run[h] =
                   IF v.exit # "ok"
                   THEN [IdleHandler EXCEPT !.pc = "done", !.cq = cq]
                   ELSE [IdleHandler EXCEPT !.pc = "set", !.cq = cq,
                                            !.lead_id = v.lead_id, !.status = v.status],
               !.stray = @ \/ ~BoundTo(leads, v.lead_id, cq)]
    /\ UNCHANGED <<users, clients, leads, calls, bot, poll, now>>

\* line 158: db.set_lead_status
CqSetStatus(h) ==
    /\ cbs.run[h].pc = "set"
    /\ leads' = set_lead_status(leads, cbs.run[h].lead_id, cbs.run[h].status)
    /\ cbs' = [cbs EXCEPT !.run[h].pc = "get",
                          !.last_write = IF cbs.run[h].lead_id \in DOMAIN leads
                                         THEN cbs.run[h].status ELSE @]
    /\ UNCHANGED <<users, clients, calls, bot, poll, now>>

\* lines 159-161: db.get_lead_by_id, return if the lead is gone
CqGetLead(h) ==
    /\ cbs.run[h].pc = "get"
    /\ LET lead == get_lead_by_id(leads, cbs.run[h].lead_id)
       IN  cbs' = [cbs EXCEPT !.run[h].lead = lead,
                              !.run[h].pc = IF lead = <<>> THEN "done" ELSE "edit"]
    /\ UNCHANGED <<users, clients, leads, calls, bot, poll, now>>

\* line 164: client.edit_message_text with the row read at line 159
CqEdit(h) ==
    /\ cbs.run[h].pc = "edit"
    /\ LET c == cbs.run[h]
       IN  cbs' = [cbs EXCEPT
               !.run[h].pc = "done",
               !.shown = <<EditCall(c.cq.chat_id, c.cq.message_id,
                                    format_lead_text(c.lead[1]),
                                    lead_keyboard(c.lead_id))>>]
    /\ UNCHANGED <<users, clients, leads, calls, bot, poll, now>>

(* ---------------------------- bot.py: run ------------------------------ *)
\* an update of the transport: a text message, a callback query, or a kind
\* the loop has no branch for
Update(kind, message, cq) ==
    [update_id |-> 0, kind |-> kind, message |-> message, cq |-> cq]

\* TelegramClient.get_updates: the pending updates whose id is at or above
\* the offset (all of them without an offset), oldest first, at most n
get_updates(queue, offset, n) ==
    LET pending == SelectSeq(queue, LAMBDA u : offset = NoneInt \/ u.update_id >= offset)
    IN  IF n >= Len(pending) THEN pending ELSE SubSeq(pending, 1, n)

\* the cursor that confirms the update itself
NextOffset_same(u) == u.update_id

\* line 184: offset = int(u.get("update_id", 0)) + 1
NextOffset(u) == u.update_id + 1

\* the transport receives an update
Arrive(u, cap) ==
    /\ Len(poll.queue) < cap
    /\ poll' = [poll EXCEPT
           !.queue = Append(@, [u EXCEPT !.update_id = Len(poll.queue) + 1]),
           !.seen = Append(@, 0)]
    /\ UNCHANGED <<users, clients, leads, calls, bot, now, cbs>>

\* line 182: get_updates returns a batch or raises
RunFetch(raises, n) ==
    /\ poll.pc = "fetch"
    /\ IF raises
       THEN poll' = [poll EXCEPT !.pc = "except", !.batch = <<>>, !.i = 1,
                                 !.errors = TRUE]
       ELSE LET b == get_updates(poll.queue, poll.offset, n)
            IN  poll' = [poll EXCEPT !.batch = b, !.i = 1,
                                     !.pc = IF b = <<>> THEN "sleep" ELSE "for"]
    /\ UNCHANGED <<users, clients, leads, calls, bot, now, cbs>>

\* the updates of the batch after position i
Following(batch, i) == {batch[k].update_id : k \in (i + 1)..Len(batch)}

\* a loop that confirms the whole batch when a handler raises
AfterHandler_skip_batch(u, raised, in_callback) ==
    [poll EXCEPT
        !.offset = IF raised
                   THEN MaxOf({poll.batch[k].update_id : k \in DOMAIN poll.batch}) + 1
                   ELSE NextOffset(u),
        !.seen[u.update_id] = IF @ >= 2 THEN 2 ELSE @ + 1,
        !.errors = @ \/ raised,
        !.cut = IF raised THEN @ \cup Following(poll.batch, poll.i) ELSE @,
        !.i = IF raised \/ in_callback THEN @ ELSE @ + 1,
        !.pc = IF raised THEN "except"
               ELSE IF in_callback THEN "callback"
               ELSE IF poll.i + 1 > Len(poll.batch) THEN "sleep" ELSE "for"]

\* the loop's position after the handler of batch[i] returned or raised
AfterHandler(u, raised, in_callback) ==
    [poll EXCEPT
        !.offset = NextOffset(u),
        !.seen[u.update_id] = IF @ >= 2 THEN 2 ELSE @ + 1,
        !.errors = @ \/ raised,
        !.cut = IF raised THEN @ \cup Following(poll.batch, poll.i) ELSE @,
        !.i = IF raised \/ in_callback THEN @ ELSE @ + 1,
        !.pc = IF raised THEN "except"
               ELSE IF in_callback THEN "callback"
               ELSE IF poll.i + 1 > Len(poll.batch) THEN "sleep" ELSE "for"]

\* lines 183-186: move the cursor past the update, then handle_message
RunDispatchMessage(token, raises) ==
    /\ poll.pc = "for"
    /\ poll.batch[poll.i].kind = "message"
    /\ MessageStep(poll.batch[poll.i].message, token, raises)
    /\ poll' = AfterHandler(poll.batch[poll.i], bot'.exit = "send_raised", FALSE)

\* lines 183-184, 187-188: move the cursor past the update, then
\* handle_callback_query up to its acknowledgment
RunDispatchCallback(raises) ==
    /\ poll.pc = "for"
    /\ poll.batch[poll.i].kind = "callback_query"
    /\ CallbackAckStep(poll.batch[poll.i].cq, raises)
    /\ poll' = AfterHandler(poll.batch[poll.i], bot'.exit = "ack_raised", TRUE)

\* lines 183-188 for an update that is neither: only the cursor moves
RunDispatchOther ==
    /\ poll.pc = "for"
    /\ poll.batch[poll.i].kind = "other"
    /\ poll' = AfterHandler(poll.batch[poll.i], FALSE, FALSE)
    /\ UNCHANGED <<users, clients, leads, calls, bot, now, cbs>>

\* line 188, the rest of handle_callback_query, returning or raising
RunCallbackApply(raises) ==
    /\ poll.pc = "callback"
    /\ CallbackApplyStep(raises)
    /\ poll' = [poll EXCEPT
           !.errors = @ \/ bot'.exit = "edit_raised",
           !.cut = IF bot'.exit = "edit_raised"
                   THEN @ \cup Following(poll.batch, poll.i) ELSE @,
           !.i = IF bot'.exit = "edit_raised" THEN @ ELSE @ + 1,
           !.pc = IF bot'.exit = "edit_raised" THEN "except"
                  ELSE IF poll.i + 1 > Len(poll.batch) THEN "sleep" ELSE "for"]

\* an `except Exception` that lets the exception end run()
RunExcept_exit ==
    /\ poll.pc = "except"
    /\ poll' = [poll EXCEPT !.pc = "exit"]
    /\ UNCHANGED <<users, clients, leads, calls, bot, now, cbs>>

\* lines 189-191: log the exception and sleep two seconds
RunExcept ==
    /\ poll.pc = "except"
    /\ poll' = [poll EXCEPT !.pc = "sleep"]
    /\ UNCHANGED <<users, clients, leads, calls, bot, now, cbs>>

\* line 193 and back to the top of `while True`
RunSleep ==
    /\ poll.pc = "sleep"
    /\ poll' = [poll EXCEPT !.pc = "fetch"]
    /\ UNCHANGED <<users, clients, leads, calls, bot, now, cbs>>

(* --------------------------- events and Next --------------------------- *)
\* inbound text messages: no text, plain text, the commands without and
\* with an "@botname" suffix, and the commands that take an argument with
\* well-formed, malformed and empty arguments
Commands == {"", "hi", "/start", "/help", "/token", "/foo"}
Text(cmd, at, arg) == [cmd |-> cmd, at |-> at, arg |-> arg]
ListTexts ==
    { Text("/today", "", ""), Text("/day", "", "2026-01-13"),
      Text("/day", "", "2026-01-14"), Text("/last", "", ""),
      Text("/last", "", "1"), Text("/last", "", "0"), Text("/last", "", "101"),
      Text("/find", "", "Anna"), Text("/find", "", "371") }
UsageTexts ==
    { Text("/day", "", "2026-13-40"), Text("/day", "", ""),
      Text("/last", "", "many"), Text("/find", "", "") }
MessageTexts ==
    [cmd : Commands, at : {""}, arg : {""}]
        \cup { Text("/token", "@bot", ""), Text("/foo", "", "bar") }
        \cup ListTexts \cup UsageTexts
Messages == [chat_id : {NoneInt, 7, 8}, text : MessageTexts]
StartMessages == [chat_id : Chats, text : [cmd : {"/start"}, at : {""}, arg : {""}]]

\* the token _gen_token ends with when a row has to be inserted: any fresh
\* value (GenTokens), or one of them where the value itself plays no role
GenTokens == IF FreshTokens(users) = {} THEN {NoneStr} ELSE FreshTokens(users)
OneGenToken == {CHOOSE t \in GenTokens : TRUE}

\* the ingress under concurrent callers; a /start binds the chat's tenant
Next ==
    \/ \E p \in Procs, token \in CallerTokens, payload \in WebhookPayload :
           WebhookStart(p, token, payload, MaxLeads)
    \/ \E p \in Procs : WebhookUpsertSelect(p)
    \/ \E p \in Procs : WebhookUpsertWrite(p)
    \/ \E p \in Procs : WebhookCreateLead(p)
    \/ \E p \in Procs, raises \in BOOLEAN, msg_id \in MsgIds : WebhookSend(p, raises, msg_id)
    \/ \E p \in Procs : WebhookBind(p)
    \/ \E m \in StartMessages, token \in OneGenToken, raises \in BOOLEAN :
           HandleMessage(m, token, raises)

Spec == Init /\ [][Next]_vars

\* the operator's text commands from several chats
NextCommands ==
    \/ \E m \in Messages, token \in GenTokens, raises \in BOOLEAN :
           HandleMessage(m, token, raises)

SpecCommands == Init /\ [][NextCommands]_vars

\* callback data: the buttons of the leads the store can hold and a reset to
\* new, a button of a lead that does not exist, and malformed strings
LeadIdStrs == {IntToStr(n) : n \in 1..MaxCallbackLeads}
WellFormedData == {<<"lead", i, s>> : i \in LeadIdStrs, s \in Statuses}
                      \cup {<<"lead", IntToStr(MaxCallbackLeads + 1), "booked">>}
MalformedData == { <<"">>, <<"other", "1", "booked">>, <<"lead", "1">>,
                   <<"lead", "1", "booked", "x">>, <<"lead", "x", "booked">>,
                   <<"lead", "1", "done">> }
\* the {chat, message} a callback reports: the bound pair, another message,
\* or none
Origins == { <<7, 41>>, <<7, 42>>, <<NoneInt, NoneInt>> }
CallbackQueries ==
    { [id |-> "cq1", data |-> d, chat_id |-> o[1], message_id |-> o[2]] :
          d \in WellFormedData \cup MalformedData, o \in Origins }

\* the inline-action callbacks, against the leads one ingress worker
\* creates for the tenants of Init and of a /start from a chat
CallbackProcs == {"w1"}
CallbackTokens == {"tokA", "tokB"}
CallbackPayloads == [source : Sources, text : Texts, name : {"Anna"}, phone : {"+371"}]

NextCallback ==
    \/ \E p \in CallbackProcs, token \in CallbackTokens, payload \in CallbackPayloads :
           WebhookStart(p, token, payload, MaxCallbackLeads)
    \/ \E p \in CallbackProcs : WebhookUpsertSelect(p)
    \/ \E p \in CallbackProcs : WebhookUpsertWrite(p)
    \/ \E p \in CallbackProcs : WebhookCreateLead(p)
    \/ \E p \in CallbackProcs, raises \in BOOLEAN, msg_id \in MsgIds :
           WebhookSend(p, raises, msg_id)
    \/ \E p \in CallbackProcs : WebhookBind(p)
    \/ \E m \in StartMessages, token \in OneGenToken : HandleMessage(m, token, FALSE)
    \/ \E cq \in CallbackQueries, raises \in BOOLEAN : HandleCallbackAck(cq, raises)
    \/ \E raises \in BOOLEAN : HandleCallbackApply(raises)

SpecCallback == Init /\ [][NextCallback]_vars

\* the poll loop: the transport receives a /start of chat 7, a button press
\* on lead 1 and an update of another kind, in any order, while one ingress
\* call of the tenant of Init creates the lead
PollUpdates ==
    { Update("message", [chat_id |-> 7, text |-> Text("/start", "", "")], NoCq),
      Update("callback_query", NoMessage,
             [id |-> "cq1", data |-> <<"lead", "1", "booked">>,
              chat_id |-> 7, message_id |-> 41]),
      Update("other", NoMessage, NoCq) }
PollTokens == {"tokA"}

Run ==
    \/ \E raises \in BOOLEAN, n \in 0..MaxUpdates : RunFetch(raises, n)
    \/ \E token \in OneGenToken, raises \in BOOLEAN : RunDispatchMessage(token, raises)
    \/ \E raises \in BOOLEAN : RunDispatchCallback(raises)
    \/ RunDispatchOther
    \/ \E raises \in BOOLEAN : RunCallbackApply(raises)
    \/ RunExcept
    \/ RunSleep

NextPoll ==
    \/ \E u \in PollUpdates : Arrive(u, MaxUpdates)
    \/ Run
    \/ \E p \in CallbackProcs, token \in PollTokens, payload \in CallbackPayloads :
           WebhookStart(p, token, payload, 1)
    \/ \E p \in CallbackProcs : WebhookUpsertSelect(p)
    \/ \E p \in CallbackProcs : WebhookUpsertWrite(p)
    \/ \E p \in CallbackProcs : WebhookCreateLead(p)

\* run() is one thread that keeps taking steps
SpecPoll == Init /\ [][NextPoll]_vars /\ WF_vars(Run)

\* status changes of one bound lead by two pollers: chat 7 starts, an
\* ingress call of its tenant creates and binds lead 1, and the buttons of
\* its message are pressed
ApplyTokens == {"tokB"}
ApplyQueries ==
    { [id |-> "cq1", data |-> <<"lead", "1", s>>, chat_id |-> 7, message_id |-> 41] :
          s \in {"booked", "rejected"} }

NextApply ==
    \/ \E m \in StartMessages, token \in OneGenToken : HandleMessage(m, token, FALSE)
    \/ \E p \in CallbackProcs, token \in ApplyTokens, payload \in CallbackPayloads :
           WebhookStart(p, token, payload, MaxCallbackLeads)
    \/ \E p \in CallbackProcs : WebhookUpsertSelect(p)
    \/ \E p \in CallbackProcs : WebhookUpsertWrite(p)
    \/ \E p \in CallbackProcs : WebhookCreateLead(p)
    \/ \E p \in CallbackProcs, msg_id \in MsgIds : WebhookSend(p, FALSE, msg_id)
    \/ \E p \in CallbackProcs : WebhookBind(p)
    \/ \E h \in Handlers, cq \in ApplyQueries : CqAck(h, cq)
    \/ \E h \in Handlers : CqSetStatus(h)
    \/ \E h \in Handlers : CqGetLead(h)
    \/ \E h \in Handlers : CqEdit(h)

SpecApply == Init /\ [][NextApply]_vars

\* the reads: one ingress worker fills the store for the tenant of Init and
\* the tenant of chat 7 over two days, chats 7 and 8 list and search, and
\* the diagnostic endpoint lists by token
ReadPayloads == [source : Sources, text : Texts, name : {"Anna", "Bob"}, phone : {"+371"}]
ReadTexts ==
    { Text("/today", "", ""), Text("/day", "", "2026-01-13"),
      Text("/last", "", "1"), Text("/last", "", "101"), Text("/find", "", "Anna") }
ReadLimits == {101}
ReadMessages ==
    [chat_id : {7}, text : ReadTexts] \cup [chat_id : {8}, text : {Text("/last", "", "")}]

NextReads ==
    \/ \E p \in CallbackProcs, token \in CallbackTokens, payload \in ReadPayloads :
           WebhookStart(p, token, payload, MaxLeads)
    \/ \E p \in CallbackProcs : WebhookUpsertSelect(p)
    \/ \E p \in CallbackProcs : WebhookUpsertWrite(p)
    \/ \E p \in CallbackProcs : WebhookCreateLead(p)
    \/ \E p \in CallbackProcs, msg_id \in MsgIds : WebhookSend(p, FALSE, msg_id)
    \/ \E p \in CallbackProcs : WebhookBind(p)
    \/ \E m \in StartMessages, token \in OneGenToken : HandleMessage(m, token, FALSE)
    \/ \E m \in ReadMessages, token \in OneGenToken : HandleMessage(m, token, FALSE)
    \/ \E p \in CallbackProcs, token \in CallbackTokens, limit \in ReadLimits :
           DebugListLeads(p, token, limit)
    \/ Tick

SpecReads == Init /\ [][NextReads]_vars

\* the diagnostic endpoint, called with limits inside and outside [1, 100]
\* against the same store
Limits == {0 - 1, 0, 1, 101}

NextDebug ==
    \/ \E p \in CallbackProcs, token \in CallbackTokens, payload \in ReadPayloads :
           WebhookStart(p, token, payload, MaxLeads)
    \/ \E p \in CallbackProcs : WebhookUpsertSelect(p)
    \/ \E p \in CallbackProcs : WebhookUpsertWrite(p)
    \/ \E p \in CallbackProcs : WebhookCreateLead(p)
    \/ \E p \in CallbackProcs, msg_id \in MsgIds : WebhookSend(p, FALSE, msg_id)
    \/ \E p \in CallbackProcs : WebhookBind(p)
    \/ \E m \in StartMessages, token \in OneGenToken : HandleMessage(m, token, FALSE)
    \/ \E p \in CallbackProcs, token \in CallerTokens, limit \in Limits :
           DebugListLeads(p, token, limit)

SpecDebug == Init /\ [][NextDebug]_vars

(* ------------------------- properties: ingress ------------------------- *)
\* token matches a tenant row
KnownToken(token) == \E i \in DOMAIN users : users[i].token = token

\* workers whose step inserts their lead / starts a request
Creating == {p \in Procs : calls[p].pc = "create" /\ calls'[p].pc # "create"}
Starting == {p \in Procs : calls[p].pc \in {"idle", "done"} /\ calls'[p] # calls[p]}

\* the columns of a lead row that come from the ingress call
SameIngressFields(a, b) ==
    /\ a.id = b.id /\ a.user_id = b.user_id /\ a.client_id = b.client_id
    /\ a.source = b.source /\ a.text = b.text
    /\ a.name = b.name /\ a.phone = b.phone /\ a.status = b.status

C1_State ==
    /\ \A i \in DOMAIN leads : leads[i].id = i /\ leads[i].status = "new"
    /\ \A p \in Procs : calls[p].response.status \in {200, 500}
           => calls[p].lead_id \in DOMAIN leads
    /\ \A p, q \in Procs : (p # q /\ calls[p].lead_id # NoneInt)
           => calls[p].lead_id # calls[q].lead_id

C1_Step ==
    /\ Len(leads') = Len(leads) + Cardinality(Creating)
    /\ \A i \in DOMAIN leads : SameIngressFields(leads'[i], leads[i])
    /\ \A p \in Creating :
           LET c == calls[p]
               l == leads'[Len(leads')]
           IN  /\ KnownToken(c.token)
               /\ calls'[p].lead_id = l.id
               /\ l.id \notin DOMAIN leads
               /\ \E i \in DOMAIN users : users[i].token = c.token /\ l.user_id = users[i].id
               /\ l.source = c.payload.source /\ l.text = c.payload.text
               /\ l.name = c.payload.name /\ l.phone = c.payload.phone
               /\ l.status = "new"
    /\ \A p \in Procs :
           (calls[p].pc \in {"send", "bind"} /\ calls'[p].pc = "done")
               => calls'[p].lead_id = calls[p].lead_id

\* C1: every ingress call with a valid token and payload adds exactly one lead
\* row, with a fresh id, owned by the token's tenant, carrying the payload's
\* source/text/name/phone and status new; no step removes or rewrites a lead,
\* and a call whose send raised still has its lead in the store.
C1_OneLeadPerCall == [](C1_State) /\ [][C1_Step]_vars

\* two interleaved calls left two leads, one of them after a failed send
C1_Witness ==
    /\ Len(leads) = 2
    /\ \E p, q \in Procs :
           /\ calls[p].response.status = 500 /\ calls[p].sent # <<>>
           /\ calls[q].response.status = 200
           /\ calls[p].lead_id \in DOMAIN leads /\ calls[q].lead_id \in DOMAIN leads
           /\ calls[p].lead_id # calls[q].lead_id
           /\ leads[calls[p].lead_id].name # leads[calls[q].lead_id].name

C2_Step ==
    \A p \in Starting :
        ~KnownToken(calls'[p].token) =>
            /\ calls'[p].pc = "done"
            /\ calls'[p].response.status = 404
            /\ calls'[p].sent = <<>>
            /\ calls'[p].lead_id = NoneInt
            /\ <<users, clients, leads>>' = <<users, clients, leads>>

\* C2: an ingress call whose token matches no tenant answers 404 and leaves
\* users, clients and leads unchanged, and it never calls send_message.
C2_UnknownTokenNotFound ==
    [](\A p \in Procs : calls[p].response.status = 404
           => calls[p].sent = <<>> /\ calls[p].lead_id = NoneInt)
    /\ [][C2_Step]_vars

\* a call with a token no tenant carries has been answered 404 while the
\* store holds a lead of another call
C2_Witness ==
    \E p \in Procs :
        /\ calls[p].response.status = 404
        /\ ~KnownToken(calls[p].token)
        /\ Len(leads) >= 1

C7_TwoCalls ==
    \A u \in DOMAIN users, ph \in Phones, nm \in Names :
        (TruthyStr(ph) /\ TruthyStr(nm)) =>
            LET r1 == upsert_client(clients, u, NoneStr, ph)
                r2 == upsert_client(r1.clients, u, nm, ph)
            IN  /\ r1.id # NoneInt
                /\ r2.id = r1.id
                /\ Len(r2.clients) = Len(r1.clients)
                /\ Len(r2.clients) <= Len(clients) + 1
                /\ r2.clients[r2.id].name = nm
                /\ r2.clients[r2.id].phone = ph /\ r2.clients[r2.id].user_id = u

C7_Step ==
    \A i \in DOMAIN clients :
        /\ i \in DOMAIN clients'
        /\ clients[i].name # NoneStr => clients'[i].name # NoneStr

\* C7: from every store the ingress reaches, resolving (tenant, phone) first
\* with a null name and then with a name returns the same client id, adds at
\* most one client row, and leaves that row's name equal to the second name;
\* and no step turns a stored client name from non-null to null.
C7_ClientBackfill == [](C7_TwoCalls) /\ [][C7_Step]_vars

\* two leads of one tenant and phone, the first without a name, share one
\* client row that now carries the second call's name
C7_Witness ==
    /\ Len(clients) = 1
    /\ \E i, j \in DOMAIN leads :
           /\ i < j
           /\ leads[i].user_id = leads[j].user_id
           /\ TruthyStr(leads[i].phone) /\ leads[i].phone = leads[j].phone
           /\ leads[i].name = NoneStr /\ TruthyStr(leads[j].name)
           /\ leads[i].client_id = 1 /\ leads[j].client_id = 1
           /\ clients[1].name = leads[j].name

\* a completed call, its lead and the tenant the lead belongs to
CompletedOk(p) == calls[p].pc = "done" /\ calls[p].response.status = 200
Unbound(l) == l.tg_message_id = NoneInt

\* C9: after a completed ingress call, a tenant without a chat identity means
\* send_message was not called and the lead has no message id; a tenant with a
\* chat identity and a successful send means the lead is bound to exactly that
\* chat identity and the message id send_message returned.
C9_BindingAfterIngress ==
    \A p \in Procs :
        CompletedOk(p) =>
            /\ calls[p].lead_id \in DOMAIN leads
            /\ LET l == leads[calls[p].lead_id]
                   u == users[l.user_id]
               IN  /\ u.tg_chat_id = NoneInt =>
                          calls[p].sent = <<>> /\ Unbound(l)
                   /\ u.tg_chat_id # NoneInt =>
                          /\ calls[p].sent # <<>>
                          /\ calls[p].sent[1].chat_id = u.tg_chat_id
                          /\ calls[p].msg_id \in MsgIds
                          /\ l.tg_chat_id = u.tg_chat_id
                          /\ l.tg_message_id = calls[p].msg_id

\* one call completed for the tenant without a chat, another for the tenant
\* bound to a chat
C9_Witness ==
    \E p, q \in Procs :
        /\ CompletedOk(p) /\ CompletedOk(q)
        /\ users[leads[calls[p].lead_id].user_id].tg_chat_id = NoneInt
        /\ Unbound(leads[calls[p].lead_id])
        /\ users[leads[calls[q].lead_id].user_id].tg_chat_id \in Chats
        /\ ~Unbound(leads[calls[q].lead_id])

\* C10: every ingress call with a valid token is answered with the success
\* acknowledgment carrying the new lead id, also when send_message fails.
C10_AlwaysSuccess ==
    \A p \in Procs :
        (calls[p].pc = "done" /\ KnownToken(calls[p].token)
            /\ calls[p].lead_id # NoneInt)
        => /\ calls[p].response.status = 200
           /\ calls[p].response.lead_id = calls[p].lead_id

\* C21: whatever the interleaving of ingress calls, a (tenant, phone) has at
\* most one client row, and all leads of that tenant and phone reference the
\* same client id.
C21_ResolveAtomic ==
    /\ \A i, j \in DOMAIN clients :
           (clients[i].user_id = clients[j].user_id /\ TruthyStr(clients[i].phone)
               /\ clients[i].phone = clients[j].phone) => i = j
    /\ \A i, j \in DOMAIN leads :
           (leads[i].user_id = leads[j].user_id /\ TruthyStr(leads[i].phone)
               /\ leads[i].phone = leads[j].phone)
           => leads[i].client_id = leads[j].client_id

\* C23: in every state a lead has either both tg_chat_id and tg_message_id
\* or neither, also between create_lead and set_lead_telegram_message and
\* after a send that raised.
C23_BindingIsPair ==
    \A i \in DOMAIN leads :
        (leads[i].tg_chat_id = NoneInt) <=> (leads[i].tg_message_id = NoneInt)

(* ---------------------- properties: tenant registry -------------------- *)
ChatIds == {7, 8}

C8_State ==
    /\ \A c \in ChatIds, t1 \in Tokens, t2 \in Tokens :
           LET r1 == get_or_create_user_by_chat_id(users, c, t1)
               r2 == get_or_create_user_by_chat_id(r1.users, c, t2)
           IN  /\ r1.row.tg_chat_id = c
               /\ r2.row.id = r1.row.id /\ r2.row.token = r1.row.token
               /\ r2.users = r1.users
    /\ \A i, j \in DOMAIN users :
           i # j => /\ users[i].token # users[j].token
                    /\ users[i].tg_chat_id = NoneInt \/ users[i].tg_chat_id # users[j].tg_chat_id

C8_Step ==
    /\ \A i \in DOMAIN users : i \in DOMAIN users' /\ users'[i] = users[i]
    /\ (bot' # bot /\ bot'.sent # <<>> /\ bot'.sent[1].text.kind \in {"start", "token"}) =>
           LET c == bot'.message.chat_id
           IN  /\ \E i \in DOMAIN users' :
                      /\ users'[i].tg_chat_id = c
                      /\ users'[i].token = bot'.sent[1].text.token
               /\ (\E i \in DOMAIN users : users[i].tg_chat_id = c) => users' = users

\* C8: resolving a tenant by a chat identity twice returns the same tenant id
\* and token and inserts no second row; tenant rows (and so their tokens) never
\* change, tokens and bound chat identities stay unique, and /start and /token
\* from a chat that already has a tenant answer with that tenant's token.
C8_ResolveIdempotent == [](C8_State) /\ [][C8_Step]_vars

\* a chat whose tenant row is older than another chat's asked again and was
\* answered with the token of its own row
C8_Witness ==
    /\ Len(users) = 3
    /\ bot.exit = "replied"
    /\ bot.message.chat_id = users[2].tg_chat_id
    /\ bot.sent[1].text.kind \in {"start", "token"}
    /\ bot.sent[1].text.token = users[2].token

(* ------------------------ properties: callbacks ------------------------ *)
\* the step of handle_callback_query after its acknowledgment
Applying == bot.pc = "cq_validate" /\ bot'.pc = "idle"

FourStatuses == {"new", "booked", "call_back", "rejected"}

\* data is lead:<id>:<status> naming lead `id` and one of the four statuses
NamesLead(data, id) ==
    /\ Len(data) = 3 /\ data[1] = "lead" /\ data[2] = IntToStr(id)
    /\ data[3] \in FourStatuses

\* the callback carries the {chat, message} it was pressed in
HasOrigin(cq) == cq.chat_id # NoneInt /\ cq.message_id # NoneInt

C3_Step ==
    Applying =>
        \A id \in DOMAIN leads :
            (NamesLead(bot.cq.data, id) /\ HasOrigin(bot.cq)
                /\ leads[id].tg_message_id # NoneInt)
            => /\ leads'[id].status = bot.cq.data[3]
               /\ bot'.edits # <<>>
               /\ bot'.edits[1].text.id = id
               /\ bot'.edits[1].text.label = STATUS_LABEL[bot.cq.data[3]]

\* C3: when the handler applies a callback lead:<id>:<status> (one of the four
\* statuses, pressed in a chat message) to a lead that has a bound message, the
\* store then holds that status for the lead, and edit_message_text is called
\* with a text that carries the label of that status.
C3_StatusStoredAndRendered == [][C3_Step]_vars

\* a bound lead was moved off `new` by a callback and the edit shows the label
C3_Witness ==
    /\ bot.exit = "edited"
    /\ \E id \in DOMAIN leads :
           /\ NamesLead(bot.cq.data, id)
           /\ leads[id].tg_message_id # NoneInt
           /\ leads[id].status = bot.cq.data[3] /\ leads[id].status # "new"
           /\ bot.edits[1].text.label = STATUS_LABEL[leads[id].status]

C4_Step ==
    (Applying /\ bot'.edits # <<>>) =>
        LET e == bot'.edits[1]
        IN  (e.text.id \in DOMAIN leads' /\ leads'[e.text.id].tg_message_id # NoneInt)
            => /\ e.chat_id = leads'[e.text.id].tg_chat_id
               /\ e.message_id = leads'[e.text.id].tg_message_id

\* C4: every edit the handler issues for a lead that has a bound message
\* targets the {tg_chat_id, tg_message_id} stored on that lead's row, whatever
\* origin the callback reports.
C4_EditTargetsBinding == [][C4_Step]_vars

C5_Step ==
    Applying =>
        \A id \in DOMAIN leads :
            (NamesLead(bot.cq.data, id) /\ HasOrigin(bot.cq)
                /\ leads[id].tg_message_id = NoneInt)
            => /\ leads'[id].status = bot.cq.data[3]
               /\ bot'.edits = <<>>

\* C5: when the handler applies a well-formed callback to a lead that has no
\* bound message, the status is stored and edit_message_text is not called.
C5_NoEditWithoutBinding == [][C5_Step]_vars

\* data the handler must ignore: not three segments, an id that is not a
\* number, or a status outside the four
Malformed(data) ==
    \/ Len(data) # 3
    \/ \A n \in 1..Len(Digits) : data[2] # Digits[n]
    \/ data[3] \notin FourStatuses

Acknowledging == bot.pc = "idle" /\ bot'.cq # NoCq /\ bot' # bot

C6_Step ==
    /\ Acknowledging =>
           /\ bot'.acked /\ bot'.edits = <<>>
           /\ <<users, clients, leads>>' = <<users, clients, leads>>
    /\ (Applying /\ Malformed(bot.cq.data)) =>
           /\ bot.acked /\ bot'.acked
           /\ bot'.edits = <<>>
           /\ <<users, clients, leads>>' = <<users, clients, leads>>

\* C6: a callback whose payload is malformed is acknowledged with
\* answer_callback_query in a step before the payload is validated, and
\* neither that step nor the validation changes the store or calls
\* edit_message_text.
C6_MalformedAckedAndIgnored == [][C6_Step]_vars

\* a malformed callback naming an existing lead was acknowledged and dropped
C6_Witness ==
    /\ bot.pc = "idle" /\ bot.acked
    /\ bot.exit \in {"bad_shape", "bad_id", "bad_status"}
    /\ Malformed(bot.cq.data)
    /\ Len(leads) >= 1 /\ bot.cq.data[2] = IntToStr(1)
    /\ bot.edits = <<>>

\* tenants bound to the chat a callback came from
TenantsOfChat(chat_id) == {users[u].id : u \in {v \in DOMAIN users : users[v].tg_chat_id = chat_id}}

C14_Step ==
    Applying =>
        \A id \in DOMAIN leads :
            leads'[id] # leads[id] => leads[id].user_id \in TenantsOfChat(bot.cq.chat_id)

\* C14: the handler changes the row of a lead only when the lead is owned by
\* the tenant bound to the chat the callback came from; a callback naming
\* another tenant's lead leaves that row unchanged.
C14_StatusWritesIsolated == [][C14_Step]_vars

C20_Step ==
    /\ Len(leads') > Len(leads) => leads'[Len(leads')].status = "new"
    /\ Applying =>
           \A id \in DOMAIN leads, st \in FourStatuses :
               (bot.cq.data = <<"lead", IntToStr(id), st>> /\ HasOrigin(bot.cq))
                   => leads'[id].status = st

\* C20: every lead's status is one of new, booked, call_back, rejected; a
\* lead is inserted with status new; and a well-formed callback naming any of
\* the four statuses sets the lead to it whatever status the lead has.
C20_StatusMachine ==
    /\ [](\A id \in DOMAIN leads : leads[id].status \in FourStatuses)
    /\ [][C20_Step]_vars

\* a lead that had been rejected was set back to new
C20_Witness ==
    /\ bot.exit = "edited" /\ bot.prev = "rejected"
    /\ bot.cq.data = <<"lead", "1", "new">>
    /\ leads[1].status = "new"

(* -------------------------- properties: reads -------------------------- *)
AllOwnedBy(rows, user_id) == \A k \in DOMAIN rows : rows[k].user_id = user_id
Queries == {"Anna", "371", "hello", "o"}

\* C15: in every store, list_leads_for_day, list_recent_leads and
\* find_leads_by_client called with a tenant's id return only rows of that
\* tenant; the list a chat is answered with holds only leads of the chat's
\* tenant, and the diagnostic endpoint answers only with leads of the tenant
\* whose token was presented.
C15_ReadsIsolated ==
    /\ \A u \in DOMAIN users :
           /\ \A d \in IsoDates : AllOwnedBy(list_leads_for_day(leads, users[u].id, d), users[u].id)
           /\ \A n \in Limits \cup {20, 50} :
                  AllOwnedBy(list_recent_leads(leads, users[u].id, n), users[u].id)
           /\ \A q \in Queries :
                  AllOwnedBy(find_leads_by_client(leads, users[u].id, q, 50), users[u].id)
    /\ (bot.sent # <<>> /\ bot.sent[1].text.kind = "list") =>
           \A k \in DOMAIN bot.sent[1].text.lines :
               /\ bot.sent[1].text.lines[k].id \in DOMAIN leads
               /\ leads[bot.sent[1].text.lines[k].id].user_id
                      \in TenantsOfChat(bot.message.chat_id)
    /\ \A p \in Procs :
           "leads" \in DOMAIN calls[p].response =>
               \A k \in DOMAIN calls[p].response.leads :
                   \E u \in DOMAIN users :
                       /\ users[u].token = calls[p].token
                       /\ calls[p].response.leads[k].user_id = users[u].id

\* the store holds a lead of each of two tenants named Anna from the same day;
\* chat 7 searched for Anna and was shown only its own lead
C15_Witness ==
    /\ Len(leads) = 2 /\ leads[1].user_id # leads[2].user_id
    /\ leads[1].name = "Anna" /\ leads[2].name = "Anna"
    /\ leads[1].created_at = leads[2].created_at
    /\ bot.message = [chat_id |-> 7, text |-> Text("/find", "", "Anna")]
    /\ Len(bot.sent[1].text.lines) = 1
    /\ leads[bot.sent[1].text.lines[1].id].user_id \in TenantsOfChat(7)

\* C16: a text message that carries a chat identity and starts a command is
\* answered with a send_message to that chat, whatever the command and its
\* argument.
C16_CommandAlwaysAnswered ==
    (bot.message.chat_id # NoneInt /\ StartsWithSlash(bot.message.text)) =>
        /\ bot.sent # <<>>
        /\ bot.sent[1].chat_id = bot.message.chat_id
        /\ bot.sent[1].text.kind \in
               {"start", "help", "token", "list", "day_usage", "last_usage",
                "find_usage", "unknown"}

\* a /day with a date that does not exist was answered with the usage line
C16_Witness ==
    /\ bot.message.text = Text("/day", "", "2026-13-40")
    /\ bot.message.chat_id = 8
    /\ bot.sent # <<>> /\ bot.sent[1].text.kind = "day_usage"
    /\ bot.sent[1].chat_id = 8

\* leads a tenant owns
CountOf(ls, user_id) == Len(SelectSeq(ls, LAMBDA r : r.user_id = user_id))
Min(a, b) == IF a <= b THEN a ELSE b

C17_Step ==
    \A p \in Procs :
        (calls'[p] # calls[p] /\ "leads" \in DOMAIN calls'[p].response) =>
            Len(calls'[p].response.leads) =
                Min(ClampLast(calls'[p].limit), CountOf(leads, calls'[p].user[1].id))

\* C17: whatever limit the caller gives, the diagnostic endpoint (like /last)
\* answers with as many leads as a limit clamped into [1, 100] allows: the
\* most recent min(clamp(limit), number of the tenant's leads).
C17_LimitClamped == [][C17_Step]_vars

C18_Step ==
    \A i \in DOMAIN clients :
        clients[i].name # NoneStr => clients'[i].name = clients[i].name

\* C18: upsert_client never changes the name of a client whose stored name
\* is non-null, also when a later call gives another non-empty name.
C18_NameKept == [][C18_Step]_vars

C19_Step ==
    (/\ bot' # bot
     /\ bot'.message.chat_id # NoneInt
     /\ bot'.message.text.cmd = "/day"
     /\ date_fromisoformat(bot'.message.text.arg) = NoneStr) =>
        /\ bot'.sent # <<>> /\ bot'.sent[1].text.kind = "day_usage"
        /\ <<users, clients, leads>>' = <<users, clients, leads>>

\* C19: a /day whose argument is not an ISO date is answered with the usage
\* line and leaves users, clients and leads unchanged, from a chat with or
\* without a tenant row.
C19_DayParseFailureNoAction == [][C19_Step]_vars

(* ------------------------ properties: poll loop ------------------------ *)
\* the loop is between two fetches and the last fetch returned updates
BatchProcessed == poll.pc = "sleep" /\ poll.batch # <<>>
HighestId(batch) == MaxOf({batch[k].update_id : k \in DOMAIN batch})

\* C11: once the loop is done with a fetched batch, the cursor is one past
\* the highest update id of that batch, whether or not a handler raised.
C11_CursorPastBatch ==
    BatchProcessed => poll.offset = HighestId(poll.batch) + 1

\* None is below every cursor value
CursorLeq(a, b) == a = NoneInt \/ (b # NoneInt /\ a <= b)

\* C12: the cursor never decreases from one step of the loop to the next
\* (so neither between two fetches), every fetched batch lies at or above the
\* cursor it was fetched with, and no update is dispatched a second time.
C12_CursorMonotonic ==
    /\ [](\A id \in DOMAIN poll.seen : poll.seen[id] <= 1)
    /\ [](\A k \in DOMAIN poll.batch : poll.pc \in {"for", "callback"} /\ k >= poll.i
              => CursorLeq(poll.offset, poll.batch[k].update_id + 1))
    /\ [][CursorLeq(poll.offset, poll'.offset)]_vars

\* every update was dispatched once over several fetches, one of the
\* handlers raised, and the loop is about to fetch with the cursor past them
C12_Witness ==
    /\ poll.pc = "fetch" /\ poll.errors
    /\ Len(poll.queue) = MaxUpdates
    /\ \A id \in DOMAIN poll.seen : poll.seen[id] = 1
    /\ poll.offset = MaxUpdates + 1
    /\ Len(poll.batch) < MaxUpdates

\* C13: the loop has no step that ends it, and after a fetch or a handler
\* raised the loop comes back to issue another fetch.
C13_LoopContinues ==
    /\ [](poll.pc \in {"fetch", "for", "callback", "except", "sleep"})
    /\ (poll.pc = "except") ~> (poll.pc = "fetch")

\* the loop fetches again after an edit of lead 1 raised
C13_Witness ==
    /\ poll.pc = "fetch" /\ poll.errors
    /\ bot.exit = "edit_raised"

\* the ids a fetch with the current cursor would return
Fetchable ==
    LET b == get_updates(poll.queue, poll.offset, Len(poll.queue))
    IN  {b[k].update_id : k \in DOMAIN b}

\* C24: the cursor never moves past an update that has not been dispatched,
\* so an update that followed a raising one in its batch is either dispatched
\* already or still returned by a fetch with the current cursor.
C24_NoUndispatchedLoss ==
    /\ \A id \in DOMAIN poll.seen : poll.seen[id] = 0 => CursorLeq(poll.offset, id)
    /\ \A id \in poll.cut : poll.seen[id] >= 1 \/ id \in Fetchable

\* the update after one whose handler raised was fetched again and
\* dispatched, while the one that raised was dispatched once
C24_Witness ==
    /\ poll.errors /\ 2 \in poll.cut /\ 1 \notin poll.cut
    /\ poll.seen[1] = 1 /\ poll.seen[2] = 1
    /\ poll.offset = 3

(* ------------------- properties: concurrent callbacks ------------------ *)
Quiescent == \A h \in Handlers : cbs.run[h].pc \in {"idle", "done"}

\* C22: once all concurrent handle_callback_query calls on a bound lead have
\* returned, the lead's stored status is the one written last, and the edit
\* the transport applied last shows the label of that stored status.
C22_LastWriteInSync ==
    (Quiescent /\ ~cbs.stray /\ cbs.shown # <<>>) =>
        LET id == cbs.shown[1].text.id
        IN  /\ leads[id].status = cbs.last_write
            /\ cbs.shown[1].text.label = STATUS_LABEL[leads[id].status]

====
